---- MODULE Spec2Model ----
(***************************************************************************)
(* The dispatch shims of rocBLAS gemmt_batched, iamax_batched and          *)
(* iamin_strided_batched: the exported C entry points (IMPL), the *_impl   *)
(* templates they call, and the collaborators those call (argument check,  *)
(* logging, numerics validator, reduction setup, kernel templates).        *)
(* One call runs in each call slot; a call is a sequence of steps, one per *)
(* statement of the impl that invokes a collaborator or returns.           *)
(***************************************************************************)
EXTENDS Integers, Sequences, FiniteSets, TLC

\* ------------------------------------------------------------------ bounds
MaxN == 1          \* n and k range over 0..MaxN
MaxBatch == 1      \* batch_count ranges over -1..MaxBatch
MaxWorkspaces == 2 \* scratch instances a handle's arena can hand out

\* --------------------------------------------------------------- constants
rocblas_layer_mode_log_trace == 1
rocblas_layer_mode_log_bench == 2
rocblas_layer_mode_log_profile == 4

Calls == {1, 2}            \* call slots (one thread each)
Handles == {1, 2}          \* handle objects; 0 is the null handle
NullHandle == 0

Routines == {"gemmt_batched", "iamax_batched", "iamin_strided_batched"}
Reductions == {"iamax_batched", "iamin_strided_batched"}

\* the four type instantiations each IMPL macro is expanded for
Types == {"s", "d", "c", "z"}

\* rocblas_status values the shims handle
Statuses == {"success", "invalid_handle", "invalid_pointer", "invalid_size",
             "invalid_value", "memory_error", "internal_error",
             "check_numerics_fail", "size_unchanged", "continue"}

\* what a collaborator call can do besides returning a status
Throw == "throw"
\* answers of the numerics validator: it passes or names a failed check
NumericsAnswers == {"success", "check_numerics_fail", Throw}
\* answers of a kernel template: enqueued, or a device/launch failure
TemplateAnswers == {"success", "memory_error", Throw}
\* a log emitter returns nothing; it may throw
LogAnswers == {"ok", Throw}
\* the argument check computes its status from the arguments; it may throw
ArgCheckAnswers == {"ok", Throw}
\* reduction setup: workspace acquired, arena exhausted, or an exception in
\* the log emitters or in the arena
SetupAnswers == {"ok", "nomem", "throw_log", "throw_alloc"}

Bit(mode, flag) == (mode \div flag) % 2 = 1

VARIABLES
    call,      \* call[c]: the state of the call running in slot c
    hstate,    \* hstate[h]: the fields of handle h the shims read
    oracle,    \* answers the collaborators have given (paired calls only)
    arena,     \* arena[h]: the scratch instances of handle h in use
    device     \* device[c]: the device work enqueued by call c

vars == <<call, hstate, oracle, arena, device>>

\* ---------------------------------------------------------------- arguments
GemmtPointers == {"alpha", "A", "B", "beta", "C"}
ReductionPointers == {"x", "result"}

LD == IF MaxN > 1 THEN MaxN ELSE 1

GemmtArgs ==
    [uplo : {"upper", "full"}, transA : {"none"}, transB : {"transpose"},
     n : 0..MaxN, k : 0..MaxN, lda : {LD}, ldb : {LD}, ldc : {LD},
     batch_count : -1..MaxBatch,
     nulls : {{}, {"alpha", "A", "B"}, {"C"}, GemmtPointers}]

IamaxArgs ==
    [n : 0..MaxN, incx : {1}, stridex : {0}, batch_count : -1..MaxBatch,
     nulls : {{}, {"result"}, ReductionPointers}]

IaminArgs ==
    [n : 0..MaxN, incx : {1}, stridex : {MaxN}, batch_count : -1..MaxBatch,
     nulls : {{}, {"result"}, ReductionPointers}]

ArgsOf(routine) ==
    CASE routine = "gemmt_batched" -> GemmtArgs
      [] routine = "iamax_batched" -> IamaxArgs
      [] routine = "iamin_strided_batched" -> IaminArgs

HandleFields == [query : BOOLEAN, layer_mode : 0..7, check_numerics : BOOLEAN]
DefaultHandle == [query |-> FALSE, layer_mode |-> 0, check_numerics |-> FALSE]

\* a workspace pointer names the arena, the instance and the call it was
\* handed to; the null pointer names none
nullptr == [h |-> 0, id |-> 0, owner |-> 0]

\* a call that has not been entered yet
NewCall(routine, type, handle, args) ==
    [pc |-> "idle", routine |-> routine, type |-> type, handle |-> handle,
     args |-> args,
     layer_mode |-> 0, check_numerics |-> FALSE,     \* locals of the impl
     arg_status |-> "none", status |-> "none",
     gemmt_check_numerics_status |-> "none",
     checks_status |-> "none", mem |-> nullptr,
     kernel_mem |-> nullptr,     \* the workspace argument the kernel got
     thrown |-> FALSE, escaped |-> FALSE, ret |-> "none",
     trace |-> <<>>,      \* collaborator invocations, in order
     records |-> <<>>,    \* log records written, in order
     passed |-> <<>>,     \* argument lists handed to collaborators, in order
     deref |-> {},        \* caller pointers read or written through
     writes |-> {}]       \* caller buffers written

NoCall == NewCall("none", "s", NullHandle, [batch_count |-> 0, nulls |-> {}])

\* ------------------------------------------------------------ step helpers
Upd(c, r) == call' = [call EXCEPT ![c] = r]
At(c, routines, pc) == call[c].routine \in routines /\ call[c].pc = pc
\* the impl returns st to the entry point, which returns it to the caller
Return(r, st) == [r EXCEPT !.pc = "done", !.ret = st]
\* a collaborator throws: the stack unwinds to the entry point's handler
Raise(r) == [r EXCEPT !.pc = "catch", !.thrown = TRUE]

\* ------------------------------- argument lists handed to collaborators
\* static constexpr rocblas_stride stride_C = 0, stride_A = 0, stride_B = 0;
stride_A == 0
stride_B == 0
stride_C == 0
\* static constexpr rocblas_stride stridex_0 = 0; rocblas_int shiftx_0 = 0;
stridex_0 == 0
shiftx_0 == 0
\* static constexpr rocblas_int shiftx_0 = 0; (iamin_strided_batched)
iamin_shiftx_0 == 0

\* rocblas_gemmt_arg_check(handle, uplo, transA, transB, n, k, alpha, A, lda,
\*                         B, ldb, beta, C, ldc, batch_count)
ArgCheckArguments(a) ==
    [uplo |-> a.uplo, transA |-> a.transA, transB |-> a.transB,
     n |-> a.n, k |-> a.k, alpha |-> "alpha", A |-> "A", lda |-> a.lda,
     B |-> "B", ldb |-> a.ldb, beta |-> "beta", C |-> "C", ldc |-> a.ldc,
     batch_count |-> a.batch_count]

\* rocblas_gemmt_check_numerics<T>(name, handle, uplo, transA, transB, n, k,
\*     A, lda, stride_A, B, ldb, stride_B, C, ldc, stride_C, batch_count,
\*     check_numerics, is_input)
NumericsArguments(a, check_numerics, is_input) ==
    [uplo |-> a.uplo, transA |-> a.transA, transB |-> a.transB,
     n |-> a.n, k |-> a.k, A |-> "A", lda |-> a.lda, stride_A |-> stride_A,
     B |-> "B", ldb |-> a.ldb, stride_B |-> stride_B,
     C |-> "C", ldc |-> a.ldc, stride_C |-> stride_C,
     batch_count |-> a.batch_count,
     check_numerics |-> check_numerics, is_input |-> is_input]

\* the leading dimensions of A and B handed over in each other's place
GemmtTemplateArguments_SwapsLeadingDims(a) ==
    [uplo |-> a.uplo, transA |-> a.transA, transB |-> a.transB,
     n |-> a.n, k |-> a.k, alpha |-> "alpha",
     A |-> "A", lda |-> a.ldb, stride_A |-> stride_A,
     B |-> "B", ldb |-> a.lda, stride_B |-> stride_B, beta |-> "beta",
     C |-> "C", ldc |-> a.ldc, stride_C |-> stride_C,
     batch_count |-> a.batch_count]

\* rocblas_internal_gemmt_template(handle, uplo, transA, transB, n, k, alpha,
\*     A, lda, stride_A, B, ldb, stride_B, beta, C, ldc, stride_C,
\*     batch_count)
GemmtTemplateArguments(a) ==
    [uplo |-> a.uplo, transA |-> a.transA, transB |-> a.transB,
     n |-> a.n, k |-> a.k, alpha |-> "alpha",
     A |-> "A", lda |-> a.lda, stride_A |-> stride_A,
     B |-> "B", ldb |-> a.ldb, stride_B |-> stride_B, beta |-> "beta",
     C |-> "C", ldc |-> a.ldc, stride_C |-> stride_C,
     batch_count |-> a.batch_count]

\* rocblas_reduction_setup<NB, isbatched>(handle, n, x, incx, stridex_0,
\*     batch_count, result, name, "iamax_batched", mem)
IamaxSetupArguments(a) ==
    [n |-> a.n, x |-> "x", incx |-> a.incx, stridex |-> stridex_0,
     batch_count |-> a.batch_count, result |-> "result",
     name |-> "iamax_batched"]

\* rocblas_iamax_template<NB, isbatched>(handle, n, x, shiftx_0, incx,
\*     stridex_0, batch_count, result, mem)
IamaxTemplateArguments(a, mem) ==
    [n |-> a.n, x |-> "x", shiftx |-> shiftx_0, incx |-> a.incx,
     stridex |-> stridex_0, batch_count |-> a.batch_count,
     result |-> "result", mem |-> mem]

\* rocblas_reduction_setup<NB, isbatched>(handle, n, x, incx, stridex,
\*     batch_count, result, name, "iamin_strided_batched", mem)
IaminSetupArguments(a) ==
    [n |-> a.n, x |-> "x", incx |-> a.incx, stridex |-> a.stridex,
     batch_count |-> a.batch_count, result |-> "result",
     name |-> "iamin_strided_batched"]

\* the kernel handed a zero stride, as in the batched routine
IaminTemplateArguments_ZeroStride(a, mem) ==
    [n |-> a.n, x |-> "x", shiftx |-> iamin_shiftx_0, incx |-> a.incx,
     stridex |-> 0, batch_count |-> a.batch_count,
     result |-> "result", mem |-> mem]

\* rocblas_iamin_template<NB, isbatched>(handle, n, x, shiftx_0, incx,
\*     stridex, batch_count, result, mem)
IaminTemplateArguments(a, mem) ==
    [n |-> a.n, x |-> "x", shiftx |-> iamin_shiftx_0, incx |-> a.incx,
     stridex |-> a.stridex, batch_count |-> a.batch_count,
     result |-> "result", mem |-> mem]

\* the argument list of the reduction setup, by routine
SetupArguments(r) ==
    IF r.routine = "iamax_batched" THEN IamaxSetupArguments(r.args)
    ELSE IaminSetupArguments(r.args)

\* the argument list the call r hands to the collaborator behind event ev
Passed(r, ev) ==
    CASE ev = "arg_check" -> ArgCheckArguments(r.args)
      [] ev = "check_numerics_input" ->
           NumericsArguments(r.args, r.check_numerics, TRUE)
      [] ev = "check_numerics_output" ->
           NumericsArguments(r.args, r.check_numerics, FALSE)
      [] ev = "template" /\ r.routine = "gemmt_batched" ->
           GemmtTemplateArguments(r.args)
      [] ev = "template" /\ r.routine = "iamax_batched" ->
           IamaxTemplateArguments(r.args, r.mem)
      [] ev = "template" /\ r.routine = "iamin_strided_batched" ->
           IaminTemplateArguments(r.args, r.mem)

\* the call invokes a collaborator: the invocation and, for all but the
\* log emitters, its argument list are noted
Emit(r, ev) ==
    [r EXCEPT !.trace = Append(@, ev),
              !.passed = IF ev \in {"log_trace", "log_bench", "log_profile"}
                         THEN @
                         ELSE Append(@, [to |-> ev, args |-> Passed(r, ev)])]

\* ------------------------------------------------- C wrapper (IMPL macro)
\* try { return rocblas_..._impl(handle, ...); }
Call(c) ==
    /\ call[c].pc = "idle"
    /\ call[c].routine \in Routines
    /\ Upd(c, [call[c] EXCEPT !.pc =
                 IF call[c].routine = "gemmt_batched" THEN "handle_check"
                 ELSE "setup"])

\* exception_to_rocblas_status(): the status an in-flight exception becomes
exception_to_rocblas_status == "internal_error"

\* the handler omitted: the exception leaves the extern "C" function
Catch_Propagates(c) ==
    /\ call[c].pc = "catch"
    /\ Upd(c, [call[c] EXCEPT !.pc = "done", !.escaped = TRUE])

\* catch(...) { return exception_to_rocblas_status(); }
Catch(c) ==
    /\ call[c].pc = "catch"
    /\ Upd(c, Return(call[c], exception_to_rocblas_status))

\* ------------------------------------------- rocblas_gemmt_batched_impl
G == {"gemmt_batched"}

\* the handle test dropped: the impl goes on to validate the arguments
HandleCheck_Missing(c) ==
    /\ At(c, G, "handle_check")
    /\ Upd(c, [call[c] EXCEPT !.pc = "arg_check"])

\* if(!handle) return rocblas_status_invalid_handle;
HandleCheck(c) ==
    /\ At(c, G, "handle_check")
    /\ Upd(c, IF call[c].handle = NullHandle
              THEN Return(call[c], "invalid_handle")
              ELSE [call[c] EXCEPT !.pc = "query"])

\* what the size-query macro returns when the handle is being queried
RETURN_ZERO_DEVICE_MEMORY_SIZE_IF_QUERIED == "size_unchanged"

\* the size-query macro left out
Query_Missing(c) ==
    /\ At(c, G, "query")
    /\ Upd(c, [call[c] EXCEPT !.pc = "snapshot"])

\* RETURN_ZERO_DEVICE_MEMORY_SIZE_IF_QUERIED(handle);
Query(c) ==
    /\ At(c, G, "query")
    /\ Upd(c, IF hstate[call[c].handle].query
              THEN Return(call[c], RETURN_ZERO_DEVICE_MEMORY_SIZE_IF_QUERIED)
              ELSE [call[c] EXCEPT !.pc = "snapshot"])

LogBits == rocblas_layer_mode_log_trace + rocblas_layer_mode_log_bench
           + rocblas_layer_mode_log_profile

\* the enclosing test of the logging block written without the profile bit
Snapshot_ForgetsProfile(c) ==
    /\ At(c, G, "snapshot")
    /\ LET h == hstate[call[c].handle]
           r == [call[c] EXCEPT !.layer_mode = h.layer_mode,
                                !.check_numerics = h.check_numerics]
       IN Upd(c, [r EXCEPT !.pc =
                    IF \/ Bit(h.layer_mode, rocblas_layer_mode_log_trace)
                       \/ Bit(h.layer_mode, rocblas_layer_mode_log_bench)
                    THEN "log_trace" ELSE "arg_check"])

\* the two locals declared static: every call sees the last snapshot
Snapshot_StaticLocals(c) ==
    /\ At(c, G, "snapshot")
    /\ LET h == hstate[call[c].handle]
       IN call' = [x \in Calls |->
                     LET r == [call[x] EXCEPT
                                 !.layer_mode = h.layer_mode,
                                 !.check_numerics = h.check_numerics]
                     IN IF x # c THEN r
                        ELSE [r EXCEPT !.pc =
                                IF h.layer_mode % (LogBits + 1) # 0
                                THEN "log_trace" ELSE "arg_check"]]

\* auto layer_mode = handle->layer_mode;
\* auto check_numerics = handle->check_numerics;
\* if(layer_mode & (trace | bench | profile)) { ... }
Snapshot(c) ==
    /\ At(c, G, "snapshot")
    /\ LET h == hstate[call[c].handle]
           r == [call[c] EXCEPT !.layer_mode = h.layer_mode,
                                !.check_numerics = h.check_numerics]
       IN Upd(c, [r EXCEPT !.pc = IF h.layer_mode % (LogBits + 1) # 0
                                  THEN "log_trace" ELSE "arg_check"])

\* scalars a trace or bench record reads through their pointers
\* (LOG_TRACE_SCALAR_VALUE, LOG_BENCH_SCALAR_VALUE); a null scalar is
\* logged without being read
LogScalars == {"alpha", "beta"}

\* rocblas_gemmt_name<T>
rocblas_gemmt_name(type) ==
    CASE type = "s" -> "rocblas_sgemmt_batched"
      [] type = "d" -> "rocblas_dgemmt_batched"
      [] type = "c" -> "rocblas_cgemmt_batched"
      [] type = "z" -> "rocblas_zgemmt_batched"
      [] OTHER -> "unknown"

\* rocblas_precision_string<T>
rocblas_precision_string(type) ==
    CASE type = "s" -> "f32_r"
      [] type = "d" -> "f64_r"
      [] type = "c" -> "f32_c"
      [] type = "z" -> "f64_c"

rocblas_fill_letter(uplo) ==
    CASE uplo = "upper" -> "U"
      [] uplo = "lower" -> "L"
      [] uplo = "full" -> "F"
      [] OTHER -> " "

rocblas_transpose_letter(trans) ==
    CASE trans = "none" -> "N"
      [] trans = "transpose" -> "T"
      [] trans = "conjugate_transpose" -> "C"
      [] OTHER -> " "

\* what LOG_TRACE_SCALAR_VALUE / LOG_BENCH_SCALAR_VALUE put in a record for
\* the scalar p: its value, as the handle's pointer mode lets it be read
ScalarValue(p) == "<" \o p \o ">"
\* a pointer argument as a trace record shows it
PointerValue(p) == "&" \o p

\* the arguments of log_trace(handle, ...), in order
TraceRecord(type, a) ==
    <<rocblas_gemmt_name(type), a.uplo, a.transA, a.transB,
      ToString(a.n), ToString(a.k), ScalarValue("alpha"),
      PointerValue("A"), ToString(a.lda), PointerValue("B"), ToString(a.ldb),
      ScalarValue("beta"), PointerValue("C"), ToString(a.ldc),
      ToString(a.batch_count)>>

\* ldb logged under --lda and lda under --ldb
BenchRecord_SwapsLeadingDims(type, a) ==
    <<"./rocblas-bench -f gemmt_batched -r", rocblas_precision_string(type),
      "--uplo", rocblas_fill_letter(a.uplo),
      "--transposeA", rocblas_transpose_letter(a.transA),
      "--transposeB", rocblas_transpose_letter(a.transB),
      "-n", ToString(a.n),
      "-k", ToString(a.k),
      ScalarValue("alpha"),
      "--lda", ToString(a.ldb),
      "--ldb", ToString(a.lda),
      ScalarValue("beta"),
      "--ldc", ToString(a.ldc),
      "--batch_count", ToString(a.batch_count)>>

\* the arguments of log_bench(handle, ...), in order
BenchRecord(type, a) ==
    <<"./rocblas-bench -f gemmt_batched -r", rocblas_precision_string(type),
      "--uplo", rocblas_fill_letter(a.uplo),
      "--transposeA", rocblas_transpose_letter(a.transA),
      "--transposeB", rocblas_transpose_letter(a.transB),
      "-n", ToString(a.n),
      "-k", ToString(a.k),
      ScalarValue("alpha"),
      "--lda", ToString(a.lda),
      "--ldb", ToString(a.ldb),
      ScalarValue("beta"),
      "--ldc", ToString(a.ldc),
      "--batch_count", ToString(a.batch_count)>>

\* the arguments of log_profile(handle, ...), in order
ProfileRecord(type, a) ==
    <<rocblas_gemmt_name(type),
      "uplo", rocblas_fill_letter(a.uplo),
      "transA", rocblas_transpose_letter(a.transA),
      "--transposeB", rocblas_transpose_letter(a.transB),
      "N", ToString(a.n),
      "K", ToString(a.k),
      "lda", ToString(a.lda),
      "ldb", ToString(a.ldb),
      "ldc", ToString(a.ldc),
      "batch_count", ToString(a.batch_count)>>

\* one guarded log statement: emit the record when its bit is set
LogStep(c, flag, ev, rec, reads, next, a) ==
    IF Bit(call[c].layer_mode, flag)
    THEN IF a = Throw
         THEN Upd(c, Raise(call[c]))
         ELSE Upd(c, [Emit(call[c], ev) EXCEPT
                        !.pc = next,
                        !.records = Append(@, [kind |-> ev, tokens |-> rec]),
                        !.deref = @ \cup (reads \ call[c].args.nulls)])
    ELSE a = "ok" /\ Upd(c, [call[c] EXCEPT !.pc = next])

\* if(layer_mode & rocblas_layer_mode_log_trace) log_trace(...)
LogTrace(c, a) ==
    /\ At(c, G, "log_trace")
    /\ LogStep(c, rocblas_layer_mode_log_trace, "log_trace",
               TraceRecord(call[c].type, call[c].args), LogScalars,
               "log_bench", a)

\* a bench record that ends the call once it is written
LogBench_Returns(c, a) ==
    /\ At(c, G, "log_bench")
    /\ IF Bit(call[c].layer_mode, rocblas_layer_mode_log_bench) /\ a = "ok"
       THEN Upd(c, Return(Emit(call[c], "log_bench"), "success"))
       ELSE LogStep(c, rocblas_layer_mode_log_bench, "log_bench",
                    BenchRecord(call[c].type, call[c].args), LogScalars,
                    "log_profile", a)

\* if(layer_mode & rocblas_layer_mode_log_bench) log_bench(...)
LogBench(c, a) ==
    /\ At(c, G, "log_bench")
    /\ LogStep(c, rocblas_layer_mode_log_bench, "log_bench",
               BenchRecord(call[c].type, call[c].args), LogScalars,
               "log_profile", a)

\* the profile record guarded by the bench bit
LogProfile_TestsBenchBit(c, a) ==
    /\ At(c, G, "log_profile")
    /\ LogStep(c, rocblas_layer_mode_log_bench, "log_profile",
               ProfileRecord(call[c].type, call[c].args), {},
               "arg_check", a)

\* if(layer_mode & rocblas_layer_mode_log_profile) log_profile(...)
LogProfile(c, a) ==
    /\ At(c, G, "log_profile")
    /\ LogStep(c, rocblas_layer_mode_log_profile, "log_profile",
               ProfileRecord(call[c].type, call[c].args), {},
               "arg_check", a)

\* rocblas_gemmt_arg_check: enum values, sizes, trivial success, pointers
rocblas_gemmt_arg_check(a) ==
    IF \/ a.uplo \notin {"upper", "lower"}
       \/ a.transA \notin {"none", "transpose", "conjugate_transpose"}
       \/ a.transB \notin {"none", "transpose", "conjugate_transpose"}
    THEN "invalid_value"
    ELSE IF \/ a.n < 0 \/ a.k < 0 \/ a.batch_count < 0
            \/ a.ldc < a.n
            \/ a.lda < (IF a.transA = "none" THEN a.n ELSE a.k)
            \/ a.ldb < (IF a.transB = "none" THEN a.k ELSE a.n)
    THEN "invalid_size"
    ELSE IF a.n = 0 \/ a.batch_count = 0
    THEN "success"
    ELSE IF \/ {"beta", "C"} \cap a.nulls # {}
            \/ (a.k > 0 /\ {"alpha", "A", "B"} \cap a.nulls # {})
    THEN "invalid_pointer"
    ELSE "continue"

\* the early return taken only on the statuses that are failures
ArgCheck_ReturnsOnFailureOnly(c, a) ==
    /\ At(c, G, "arg_check")
    /\ IF a = Throw
       THEN Upd(c, Raise(Emit(call[c], "arg_check")))
       ELSE LET st == rocblas_gemmt_arg_check(call[c].args)
                r == [Emit(call[c], "arg_check") EXCEPT !.arg_status = st]
            IN Upd(c, IF st \notin {"continue", "success"}
                      THEN Return(r, st)
                      ELSE [r EXCEPT !.pc = "numerics_input"])

\* the early return written against success instead of continue
ArgCheck_ComparesSuccess(c, a) ==
    /\ At(c, G, "arg_check")
    /\ IF a = Throw
       THEN Upd(c, Raise(Emit(call[c], "arg_check")))
       ELSE LET st == rocblas_gemmt_arg_check(call[c].args)
                r == [Emit(call[c], "arg_check") EXCEPT !.arg_status = st]
            IN Upd(c, IF st # "success"
                      THEN Return(r, st)
                      ELSE [r EXCEPT !.pc = "numerics_input"])

\* the argument status tested after the input numerics check has run
ArgCheck_TestedAfterNumerics(c, a) ==
    /\ At(c, G, "arg_check")
    /\ IF a = Throw
       THEN Upd(c, Raise(Emit(call[c], "arg_check")))
       ELSE LET st == rocblas_gemmt_arg_check(call[c].args)
                r == [Emit(call[c], "arg_check") EXCEPT !.arg_status = st]
            IN Upd(c, IF st # "continue"
                      THEN Return(IF call[c].check_numerics
                                  THEN Emit(r, "check_numerics_input")
                                  ELSE r, st)
                      ELSE [r EXCEPT !.pc = "numerics_input"])

\* rocblas_status arg_status = rocblas_gemmt_arg_check(...);
\* if(arg_status != rocblas_status_continue) return arg_status;
ArgCheck(c, a) ==
    /\ At(c, G, "arg_check")
    /\ IF a = Throw
       THEN Upd(c, Raise(Emit(call[c], "arg_check")))
       ELSE LET st == rocblas_gemmt_arg_check(call[c].args)
                r == [Emit(call[c], "arg_check") EXCEPT !.arg_status = st]
            IN Upd(c, IF st # "continue"
                      THEN Return(r, st)
                      ELSE [r EXCEPT !.pc = "numerics_input"])

\* buffers the numerics validator scans
NumericsOperands(a) == (IF a.k > 0 THEN {"A", "B"} ELSE {}) \cup {"C"}

\* one guarded call of rocblas_gemmt_check_numerics
NumericsStep(c, ev, next, a, onsuccess) ==
    IF call[c].check_numerics
    THEN LET r == [Emit(call[c], ev) EXCEPT
                      !.deref = @ \cup NumericsOperands(call[c].args)]
         IN IF a = Throw
            THEN Upd(c, Raise(r))
            ELSE LET q == [r EXCEPT !.gemmt_check_numerics_status = a]
                 IN Upd(c, IF a # "success" THEN Return(q, a)
                           ELSE IF next = "done" THEN Return(q, onsuccess)
                           ELSE [q EXCEPT !.pc = next])
    ELSE /\ a = "success"
         /\ Upd(c, IF next = "done" THEN Return(call[c], onsuccess)
                   ELSE [call[c] EXCEPT !.pc = next])

\* the status of the input check ignored
InputNumerics_Ignored(c, a) ==
    /\ At(c, G, "numerics_input")
    /\ IF call[c].check_numerics /\ a # Throw
       THEN Upd(c, [Emit(call[c], "check_numerics_input") EXCEPT
                      !.gemmt_check_numerics_status = a, !.pc = "template"])
       ELSE NumericsStep(c, "check_numerics_input", "template", a, "none")

\* if(check_numerics) { is_input = true; ...
\*   if(gemmt_check_numerics_status != rocblas_status_success) return it; }
InputNumerics(c, a) ==
    /\ At(c, G, "numerics_input")
    /\ NumericsStep(c, "check_numerics_input", "template", a, "none")

\* a template that returns success has enqueued its kernels on the
\* handle's stream; the device runs them on its own
NoDevice == [c \in Calls |-> "idle"]
Enqueue(c, a) ==
    device' = [device EXCEPT ![c] = IF a = "success" THEN "running" ELSE @]
\* the device finishes the work of call c
DeviceCompletes(c) ==
    /\ device[c] = "running"
    /\ device' = [device EXCEPT ![c] = "finished"]
    /\ UNCHANGED <<call, hstate, oracle, arena>>

\* what the kernel reads and writes
KernelOperands(a) ==
    (IF a.k > 0 THEN {"alpha", "A", "B"} ELSE {}) \cup {"beta", "C"}

\* the kernel status tested only after the output check
Template_NoEarlyReturn(c, a) ==
    /\ At(c, G, "template")
    /\ LET r == [Emit(call[c], "template") EXCEPT
                   !.deref = @ \cup KernelOperands(call[c].args)]
       IN IF a = Throw
          THEN Upd(c, Raise(r))
          ELSE Upd(c, [r EXCEPT !.status = a, !.pc = "numerics_output",
                          !.writes = IF a = "success" THEN @ \cup {"C"} ELSE @])
    /\ Enqueue(c, a)

\* a failed dispatch tried a second time
Template_RetriesOnce(c, a) ==
    /\ At(c, G, "template")
    /\ LET r == [Emit(call[c], "template") EXCEPT
                   !.deref = @ \cup KernelOperands(call[c].args)]
       IN IF a = Throw
          THEN Upd(c, Raise(r))
          ELSE LET q == [r EXCEPT !.status = a]
               IN Upd(c, IF a # "success"
                         THEN IF call[c].status = "none"
                              THEN q
                              ELSE Return(q, a)
                         ELSE [q EXCEPT !.pc = "numerics_output",
                                        !.writes = @ \cup {"C"}])
    /\ Enqueue(c, a)

\* the stream synchronised after the dispatch: the call goes on only
\* when the device has finished
Template_WaitsForDevice(c, a) ==
    /\ At(c, G, "template")
    /\ IF device[c] = "idle"
       THEN LET r == [Emit(call[c], "template") EXCEPT
                        !.deref = @ \cup KernelOperands(call[c].args)]
            IN /\ IF a = Throw
                  THEN Upd(c, Raise(r))
                  ELSE Upd(c, IF a # "success"
                              THEN Return([r EXCEPT !.status = a], a)
                              ELSE [r EXCEPT !.status = a,
                                             !.writes = @ \cup {"C"}])
               /\ Enqueue(c, a)
       ELSE /\ device[c] = "finished" /\ a = "success"
            /\ Upd(c, [call[c] EXCEPT !.pc = "numerics_output"])
            /\ UNCHANGED device

\* rocblas_status status = rocblas_internal_gemmt_template(...);
\* if(status != rocblas_status_success) return status;
Template(c, a) ==
    /\ At(c, G, "template")
    /\ LET r == [Emit(call[c], "template") EXCEPT
                   !.deref = @ \cup KernelOperands(call[c].args)]
       IN IF a = Throw
          THEN Upd(c, Raise(r))
          ELSE LET q == [r EXCEPT !.status = a]
               IN Upd(c, IF a # "success"
                         THEN Return(q, a)
                         ELSE [q EXCEPT !.pc = "numerics_output",
                                        !.writes = @ \cup {"C"}])
    /\ Enqueue(c, a)

\* the output check run whatever the check_numerics flag says
OutputNumerics_Unguarded(c, a) ==
    /\ At(c, G, "numerics_output")
    /\ LET r == Emit(call[c], "check_numerics_output")
       IN IF a = Throw
          THEN Upd(c, Raise(r))
          ELSE LET q == [r EXCEPT !.gemmt_check_numerics_status = a]
               IN Upd(c, Return(q, IF a # "success" THEN a ELSE call[c].status))

\* the second check called with is_input still true
OutputNumerics_ChecksInputAgain(c, a) ==
    /\ At(c, G, "numerics_output")
    /\ NumericsStep(c, "check_numerics_input", "done", a, call[c].status)

\* the output check guarded by handle->check_numerics read again
OutputNumerics_RereadsHandle(c, a) ==
    /\ At(c, G, "numerics_output")
    /\ IF hstate[call[c].handle].check_numerics
       THEN LET r == [Emit(call[c], "check_numerics_output") EXCEPT
                        !.deref = @ \cup NumericsOperands(call[c].args)]
            IN IF a = Throw
               THEN Upd(c, Raise(r))
               ELSE LET q == [r EXCEPT !.gemmt_check_numerics_status = a]
                    IN Upd(c, Return(q, IF a # "success" THEN a
                                        ELSE call[c].status))
       ELSE /\ a = "success"
            /\ Upd(c, Return(call[c], call[c].status))

\* if(check_numerics) { is_input = false; ...
\*   if(gemmt_check_numerics_status != rocblas_status_success) return it; }
\* return status;
OutputNumerics(c, a) ==
    /\ At(c, G, "numerics_output")
    /\ NumericsStep(c, "check_numerics_output", "done", a, call[c].status)

\* ------------------------------------------------ rocblas_reduction_setup
\* the log records the handle's layer mode enables, in emission order
SetupLogs(mode) ==
    (IF Bit(mode, rocblas_layer_mode_log_trace) THEN <<"log_trace">> ELSE <<>>)
    \o (IF Bit(mode, rocblas_layer_mode_log_bench) THEN <<"log_bench">> ELSE <<>>)
    \o (IF Bit(mode, rocblas_layer_mode_log_profile) THEN <<"log_profile">> ELSE <<>>)

SetupResult(st, evs, wr, m) ==
    [status |-> st, events |-> evs, writes |-> wr, mem |-> m]

\* the handle's device memory arena: instances 1..MaxWorkspaces, each in
\* use by at most one call
NoArena == [h \in Handles |-> {}]
FreeInstances(h) ==
    {i \in 1..MaxWorkspaces : \A e \in arena[h] : e.id # i}
\* device_malloc: a free instance, handed to call c
Acquire(h, c) ==
    [h |-> h, id |-> CHOOSE i \in FreeInstances(h) :
                       \A j \in FreeInstances(h) : i <= j,
     owner |-> c]
\* the instances call c holds go back to their arenas when the call's
\* scope ends
Release(c) == [h \in Handles |-> {e \in arena[h] : e.owner # c}]
HeldBy(c) == UNION {{e \in arena[h] : e.owner = c} : h \in Handles}

\* handle check, size-query short-circuit, logging, argument validation,
\* workspace acquisition; ans is what the log emitters and the arena do
rocblas_reduction_setup(h, c, a, ans) ==
    IF h = NullHandle THEN SetupResult("invalid_handle", <<>>, {}, nullptr)
    ELSE IF hstate[h].query
    THEN SetupResult("size_unchanged", <<>>, {}, nullptr)
    ELSE IF ans = "throw_log" THEN SetupResult(Throw, <<>>, {}, nullptr)
    ELSE LET logs == SetupLogs(hstate[h].layer_mode)
             chk == logs \o <<"arg_check">>
         IN IF a.batch_count < 0
            THEN SetupResult("invalid_size", chk, {}, nullptr)
            ELSE IF a.batch_count = 0
            THEN SetupResult("success", chk, {}, nullptr)
            ELSE IF a.nulls # {}
            THEN SetupResult("invalid_pointer", chk, {}, nullptr)
            ELSE IF a.n <= 0 \/ a.incx <= 0
            THEN SetupResult("success", chk, {"result"}, nullptr)
            ELSE LET acq == chk \o <<"workspace">>
                 IN CASE ans = "ok" ->
                           SetupResult("continue", acq, {}, Acquire(h, c))
                      [] ans = "nomem" ->
                           SetupResult("memory_error", acq, {}, nullptr)
                      [] OTHER -> SetupResult(Throw, acq, {}, nullptr)

\* the answers that the setup of this call can be given
ReachesWorkspace(h, a) ==
    /\ h # NullHandle /\ ~hstate[h].query
    /\ a.batch_count > 0 /\ a.nulls = {} /\ a.n > 0 /\ a.incx > 0

SetupAsks(h, a, ans) ==
    /\ \/ ans = "ok"
       \/ /\ ans = "throw_log"
          /\ h # NullHandle /\ ~hstate[h].query
          /\ hstate[h].layer_mode % (LogBits + 1) # 0
       \/ /\ ans \in {"nomem", "throw_alloc"}
          /\ ReachesWorkspace(h, a)
    \* an exhausted arena cannot hand out an instance
    /\ (ans = "ok" /\ ReachesWorkspace(h, a)) => FreeInstances(h) # {}

\* mem = nullptr; checks_status = rocblas_reduction_setup(..., mem);
\* if(checks_status != rocblas_status_continue) return checks_status;
SetupStep(c, ans, returns) ==
    /\ SetupAsks(call[c].handle, call[c].args, ans)
    /\ LET s == rocblas_reduction_setup(call[c].handle, c, call[c].args, ans)
           r == [call[c] EXCEPT !.trace = @ \o s.events,
                                !.passed =
                                  Append(@, [to |-> "setup",
                                             args |-> SetupArguments(call[c])]),
                                !.writes = @ \cup s.writes,
                                !.deref = @ \cup s.writes,
                                !.mem = s.mem]
       IN /\ arena' = IF s.mem = nullptr THEN arena
                      ELSE [arena EXCEPT ![s.mem.h] = @ \cup {s.mem}]
          /\ IF s.status = Throw
             THEN Upd(c, Raise(r))
             ELSE LET q == [r EXCEPT !.checks_status = s.status]
                  IN Upd(c, IF s.status \in returns
                            THEN Return(q, s.status)
                            ELSE [q EXCEPT !.pc = "template"])

\* return rocblas_i..._template(handle, n, x, shiftx_0, incx, stridex,
\*                                batch_count, result, mem);
\* the impl's scope ends with this statement, by return or by exception
ReductionTemplateStep(c, a) ==
    LET r == [Emit(call[c], "template") EXCEPT
                !.deref = @ \cup ReductionPointers,
                !.kernel_mem = call[c].mem]
    IN /\ arena' = Release(c)
       /\ Enqueue(c, a)
       /\ IF a = Throw
          THEN Upd(c, Raise(r))
          ELSE Upd(c, Return([r EXCEPT !.status = a,
                                !.writes = IF a = "success"
                                           THEN @ \cup {"result"} ELSE @], a))

\* --------------------------------------------- rocblas_iamax_batched_impl
\* the early return taken only on the statuses that are failures
IamaxSetup_ReturnsOnFailureOnly(c, ans) ==
    /\ At(c, {"iamax_batched"}, "setup")
    /\ SetupStep(c, ans, Statuses \ {"continue", "success"})

IamaxSetup(c, ans) ==
    /\ At(c, {"iamax_batched"}, "setup")
    /\ SetupStep(c, ans, Statuses \ {"continue"})

IamaxTemplate(c, a) ==
    /\ At(c, {"iamax_batched"}, "template")
    /\ ReductionTemplateStep(c, a)

\* ------------------------------------- rocblas_iamin_strided_batched_impl
\* mem declared static: one pointer shared by every call of the routine
IaminSetup_StaticMem(c, ans) ==
    /\ At(c, {"iamin_strided_batched"}, "setup")
    /\ SetupAsks(call[c].handle, call[c].args, ans)
    /\ LET s == rocblas_reduction_setup(call[c].handle, c, call[c].args, ans)
           r == [call[c] EXCEPT !.trace = @ \o s.events,
                                !.passed =
                                  Append(@, [to |-> "setup",
                                             args |-> SetupArguments(call[c])]),
                                !.writes = @ \cup s.writes,
                                !.deref = @ \cup s.writes,
                                !.mem = s.mem]
           q == [r EXCEPT !.checks_status = s.status]
       IN /\ arena' = IF s.mem = nullptr THEN arena
                      ELSE [arena EXCEPT ![s.mem.h] = @ \cup {s.mem}]
          /\ call' = [x \in Calls |->
                        IF x # c THEN [call[x] EXCEPT !.mem = s.mem]
                        ELSE IF s.status = Throw THEN Raise(r)
                        ELSE IF s.status # "continue" THEN Return(q, s.status)
                        ELSE [q EXCEPT !.pc = "template"]]

IaminSetup(c, ans) ==
    /\ At(c, {"iamin_strided_batched"}, "setup")
    /\ SetupStep(c, ans, Statuses \ {"continue"})

IaminTemplate(c, a) ==
    /\ At(c, {"iamin_strided_batched"}, "template")
    /\ ReductionTemplateStep(c, a)

\* ------------------------------------------------------- specification
OracleKeys == {"log_trace", "log_bench", "log_profile", "arg_check",
               "check_numerics_input", "template", "check_numerics_output"}
NoAnswers == [k \in OracleKeys |-> "unasked"]

\* one call of any routine, any type instantiation, on any handle state
Init ==
    /\ \E routine \in Routines, type \in Types, h \in {NullHandle, 1} :
         /\ \E a \in ArgsOf(routine) :
              call = [c \in Calls |-> IF c = 1 THEN NewCall(routine, type, h, a)
                                      ELSE NoCall]
         /\ \E f \in HandleFields :
              /\ h = NullHandle => f = DefaultHandle
              /\ hstate = [x \in Handles |-> IF x = 1 THEN f ELSE DefaultHandle]
    /\ oracle = NoAnswers
    /\ arena = NoArena
    /\ device = NoDevice

Next ==
    \/ Call(1) /\ UNCHANGED <<hstate, oracle, arena, device>>
    \/ Catch(1) /\ UNCHANGED <<hstate, oracle, arena, device>>
    \/ HandleCheck(1) /\ UNCHANGED <<hstate, oracle, arena, device>>
    \/ Query(1) /\ UNCHANGED <<hstate, oracle, arena, device>>
    \/ Snapshot(1) /\ UNCHANGED <<hstate, oracle, arena, device>>
    \/ \E a \in LogAnswers : LogTrace(1, a) /\ UNCHANGED <<hstate, oracle, arena, device>>
    \/ \E a \in LogAnswers : LogBench(1, a) /\ UNCHANGED <<hstate, oracle, arena, device>>
    \/ \E a \in LogAnswers : LogProfile(1, a) /\ UNCHANGED <<hstate, oracle, arena, device>>
    \/ \E a \in ArgCheckAnswers : ArgCheck(1, a) /\ UNCHANGED <<hstate, oracle, arena, device>>
    \/ \E a \in NumericsAnswers :
         InputNumerics(1, a) /\ UNCHANGED <<hstate, oracle, arena, device>>
    \/ \E a \in TemplateAnswers : Template(1, a) /\ UNCHANGED <<hstate, oracle, arena>>
    \/ \E a \in NumericsAnswers :
         OutputNumerics(1, a) /\ UNCHANGED <<hstate, oracle, arena, device>>
    \/ \E a \in SetupAnswers : IamaxSetup(1, a) /\ UNCHANGED <<hstate, oracle, device>>
    \/ \E a \in TemplateAnswers :
         IamaxTemplate(1, a) /\ UNCHANGED <<hstate, oracle>>
    \/ \E a \in SetupAnswers : IaminSetup(1, a) /\ UNCHANGED <<hstate, oracle, device>>
    \/ \E a \in TemplateAnswers :
         IaminTemplate(1, a) /\ UNCHANGED <<hstate, oracle>>

Spec == Init /\ [][Next]_vars

\* ------------------------------------------- two calls, same answers
\* Two gemmt_batched calls with the same arguments on two handles that
\* differ only in layer_mode.  A collaborator asked the same question by
\* both calls gives both the same answer: the first answer is recorded.
Consult(key, asked, a) ==
    IF asked
    THEN oracle[key] \in {"unasked", a} /\ oracle' = [oracle EXCEPT ![key] = a]
    ELSE UNCHANGED oracle

PairArgs ==
    {a \in GemmtArgs :
       a.nulls \in {{}, GemmtPointers} /\ a.k = MaxN /\ a.n = MaxN}

PairInit ==
    /\ \E type \in Types, a \in PairArgs, null \in BOOLEAN :
         /\ call = [c \in Calls |->
                      NewCall("gemmt_batched", type,
                              IF null THEN NullHandle ELSE c, a)]
         /\ \E f \in HandleFields, m \in 0..7 :
              /\ null => (f = DefaultHandle /\ m = 0)
              /\ hstate = [x \in Handles |->
                             IF x = 1 THEN f ELSE [f EXCEPT !.layer_mode = m]]
    /\ oracle = NoAnswers
    /\ arena = NoArena
    /\ device = NoDevice

\* the second call is made after the first has returned
Turn(c) == c = 1 \/ call[1].pc = "done"

PairNext ==
    \/ \E c \in Calls : Turn(c) /\ Call(c) /\ UNCHANGED <<hstate, oracle, arena, device>>
    \/ \E c \in Calls : Turn(c) /\ Catch(c) /\ UNCHANGED <<hstate, oracle, arena, device>>
    \/ \E c \in Calls : Turn(c) /\ HandleCheck(c) /\ UNCHANGED <<hstate, oracle, arena, device>>
    \/ \E c \in Calls : Turn(c) /\ Query(c) /\ UNCHANGED <<hstate, oracle, arena, device>>
    \/ \E c \in Calls : Turn(c) /\ Snapshot(c) /\ UNCHANGED <<hstate, oracle, arena, device>>
    \/ \E c \in Calls, a \in LogAnswers :
         /\ Turn(c) /\ LogTrace(c, a)
         /\ Consult("log_trace",
                    Bit(call[c].layer_mode, rocblas_layer_mode_log_trace), a)
         /\ UNCHANGED <<hstate, arena, device>>
    \/ \E c \in Calls, a \in LogAnswers :
         /\ Turn(c) /\ LogBench(c, a)
         /\ Consult("log_bench",
                    Bit(call[c].layer_mode, rocblas_layer_mode_log_bench), a)
         /\ UNCHANGED <<hstate, arena, device>>
    \/ \E c \in Calls, a \in LogAnswers :
         /\ Turn(c) /\ LogProfile(c, a)
         /\ Consult("log_profile",
                    Bit(call[c].layer_mode, rocblas_layer_mode_log_profile), a)
         /\ UNCHANGED <<hstate, arena, device>>
    \/ \E c \in Calls, a \in ArgCheckAnswers :
         /\ Turn(c) /\ ArgCheck(c, a)
         /\ Consult("arg_check", TRUE, a)
         /\ UNCHANGED <<hstate, arena, device>>
    \/ \E c \in Calls, a \in NumericsAnswers :
         /\ Turn(c) /\ InputNumerics(c, a)
         /\ Consult("check_numerics_input", call[c].check_numerics, a)
         /\ UNCHANGED <<hstate, arena, device>>
    \/ \E c \in Calls, a \in TemplateAnswers :
         /\ Turn(c) /\ Template(c, a)
         /\ Consult("template", TRUE, a)
         /\ UNCHANGED <<hstate, arena>>
    \/ \E c \in Calls, a \in NumericsAnswers :
         /\ Turn(c) /\ OutputNumerics(c, a)
         /\ Consult("check_numerics_output", call[c].check_numerics, a)
         /\ UNCHANGED <<hstate, arena, device>>

SpecPair == PairInit /\ [][PairNext]_vars

\* ------------------------------------------------- two threads at once
\* Two calls of any routines run in two threads, their steps interleaved
\* in every order; the second call is on the first call's handle or on a
\* handle of its own.
ConcTypes == {"s", "z"}

ConcArgs(routine) ==
    {a \in ArgsOf(routine) :
       /\ a.n = MaxN
       /\ a.batch_count \in {0, MaxBatch}
       /\ a.nulls = {}
       /\ routine = "gemmt_batched" => (a.uplo = "upper" /\ a.k = MaxN)}

ConcHandleFields ==
    {f \in HandleFields :
       /\ ~f.query
       /\ \/ f.layer_mode = 0 /\ ~f.check_numerics
          \/ f.layer_mode = LogBits /\ f.check_numerics}

ConcInit ==
    /\ \E r1 \in Routines, r2 \in Routines, t \in ConcTypes, h2 \in Handles :
         \E a1 \in ConcArgs(r1), a2 \in ConcArgs(r2) :
           call = [c \in Calls |-> IF c = 1 THEN NewCall(r1, t, 1, a1)
                                   ELSE NewCall(r2, t, h2, a2)]
    /\ hstate \in [Handles -> ConcHandleFields]
    /\ oracle = NoAnswers
    /\ arena = NoArena
    /\ device = NoDevice

ConcNext ==
    \/ \E c \in Calls : Call(c) /\ UNCHANGED <<hstate, oracle, arena, device>>
    \/ \E c \in Calls : Catch(c) /\ UNCHANGED <<hstate, oracle, arena, device>>
    \/ \E c \in Calls : HandleCheck(c) /\ UNCHANGED <<hstate, oracle, arena, device>>
    \/ \E c \in Calls : Query(c) /\ UNCHANGED <<hstate, oracle, arena, device>>
    \/ \E c \in Calls : Snapshot(c) /\ UNCHANGED <<hstate, oracle, arena, device>>
    \/ \E c \in Calls, a \in LogAnswers :
         LogTrace(c, a) /\ UNCHANGED <<hstate, oracle, arena, device>>
    \/ \E c \in Calls, a \in LogAnswers :
         LogBench(c, a) /\ UNCHANGED <<hstate, oracle, arena, device>>
    \/ \E c \in Calls, a \in LogAnswers :
         LogProfile(c, a) /\ UNCHANGED <<hstate, oracle, arena, device>>
    \/ \E c \in Calls, a \in ArgCheckAnswers :
         ArgCheck(c, a) /\ UNCHANGED <<hstate, oracle, arena, device>>
    \/ \E c \in Calls, a \in NumericsAnswers :
         InputNumerics(c, a) /\ UNCHANGED <<hstate, oracle, arena, device>>
    \/ \E c \in Calls, a \in TemplateAnswers :
         Template(c, a) /\ UNCHANGED <<hstate, oracle, arena>>
    \/ \E c \in Calls, a \in NumericsAnswers :
         OutputNumerics(c, a) /\ UNCHANGED <<hstate, oracle, arena, device>>
    \/ \E c \in Calls, a \in SetupAnswers :
         IamaxSetup(c, a) /\ UNCHANGED <<hstate, oracle, device>>
    \/ \E c \in Calls, a \in TemplateAnswers :
         IamaxTemplate(c, a) /\ UNCHANGED <<hstate, oracle>>
    \/ \E c \in Calls, a \in SetupAnswers :
         IaminSetup(c, a) /\ UNCHANGED <<hstate, oracle, device>>
    \/ \E c \in Calls, a \in TemplateAnswers :
         IaminTemplate(c, a) /\ UNCHANGED <<hstate, oracle>>

SpecConc == ConcInit /\ [][ConcNext]_vars

\* -------------------------------------------- the log records' contents
\* gemmt_batched calls whose arguments all differ where they can, on a
\* handle with any logging mode; the argument check judges them as it
\* judges any other arguments
LogArgs ==
    [uplo : {"upper", "lower"},
     transA : {"none", "conjugate_transpose"},
     transB : {"none", "transpose"},
     n : {4, 5}, k : {3},
     lda : {4, 6}, ldb : {3}, ldc : {4, 7},
     batch_count : {0, 2},
     nulls : {{}}]

LogHandleFields == {f \in HandleFields : ~f.query /\ ~f.check_numerics}

LogInit ==
    \/ /\ \E type \in Types, a \in LogArgs :
            call = [c \in Calls |->
                      IF c = 1 THEN NewCall("gemmt_batched", type, 1, a)
                      ELSE NoCall]
       /\ \E f \in LogHandleFields :
            hstate = [x \in Handles |-> IF x = 1 THEN f ELSE DefaultHandle]
       /\ oracle = NoAnswers
       /\ arena = NoArena
       /\ device = NoDevice
    \/ /\ Init
       /\ call[1].routine \in Reductions
       /\ call[1].type = "s"

SpecLog == LogInit /\ [][Next]_vars

\* ------------------------------------------------ calls and the device
\* The device runs enqueued kernels at its own pace, or never; a call
\* that can take a step takes it.
LiveNext ==
    \/ Next
    \/ DeviceCompletes(1)

SpecLive == Init /\ [][LiveNext]_vars /\ WF_vars(Next)

\* --------------------------------- the handle written by another thread
\* Another thread of the caller stores into the handle a call is using.
\* The store races with the call's reads of the handle: a read sees the
\* value before or the value after, as the steps interleave.
SetCheckNumerics(h) ==
    /\ hstate' = [hstate EXCEPT ![h].check_numerics = ~@]
    /\ UNCHANGED <<call, oracle, arena, device>>

SetLayerMode(h, m) ==
    /\ hstate[h].layer_mode # m
    /\ hstate' = [hstate EXCEPT ![h].layer_mode = m]
    /\ UNCHANGED <<call, oracle, arena, device>>

\* call c has been made and has not returned
InFlight(c) == call[c].routine \in Routines /\ call[c].pc # "done"

\* the handle of the running call, if it has one
UsedHandles == {call[1].handle} \ {NullHandle}

FlipTypes == {"s", "c"}
FlipInit == Init /\ call[1].type \in FlipTypes

FlipNext ==
    \/ Next
    \/ \E h \in UsedHandles : InFlight(1) /\ SetCheckNumerics(h)
    \/ \E h \in UsedHandles, m \in {0, LogBits} :
         InFlight(1) /\ SetLayerMode(h, m)

SpecFlip == FlipInit /\ [][FlipNext]_vars

\* ------------------------------------------- the arguments handed on
\* calls of the three routines whose arguments all differ from each other
\* and from the fixed strides and shifts, so that an argument handed on in
\* another's place shows
WideGemmtArgs ==
    [uplo : {"upper", "lower"}, transA : {"none", "transpose"},
     transB : {"none"}, n : {4}, k : {3, 5},
     lda : {6}, ldb : {5, 8}, ldc : {7}, batch_count : {0, 2},
     nulls : {{}, {"C"}}]

WideReductionArgs(routine) ==
    [n : {3, 4}, incx : {1, 2},
     stridex : IF routine = "iamax_batched" THEN {0} ELSE {5, 6},
     batch_count : {0, 2}, nulls : {{}, {"result"}}]

WideArgsOf(routine) ==
    IF routine = "gemmt_batched" THEN WideGemmtArgs
    ELSE WideReductionArgs(routine)

WideHandleFields ==
    {f \in HandleFields : ~f.query /\ f.layer_mode \in {0, LogBits}}

ArgsInit ==
    /\ \E routine \in Routines, type \in Types :
         \E a \in WideArgsOf(routine) :
           call = [c \in Calls |-> IF c = 1 THEN NewCall(routine, type, 1, a)
                                   ELSE NoCall]
    /\ \E f \in WideHandleFields :
         hstate = [x \in Handles |-> IF x = 1 THEN f ELSE DefaultHandle]
    /\ oracle = NoAnswers
    /\ arena = NoArena
    /\ device = NoDevice

SpecArgs == ArgsInit /\ [][Next]_vars

\* ================================================================ claims
Done(c) == call[c].pc = "done"
Active(c) == call[c].routine \in Routines
IsGemmt(c) == call[c].routine = "gemmt_batched"
Has(c, ev) == \E i \in DOMAIN call[c].trace : call[c].trace[i] = ev
LogEvents == {"log_trace", "log_bench", "log_profile"}
Logged(c) == \E ev \in LogEvents : Has(c, ev)
Queried(c) == call[c].handle # NullHandle /\ hstate[call[c].handle].query
Failure(st) == st \notin {"none", "success", "continue"}

\* C1: a call of any routine with a null handle returns invalid-handle,
\* and up to that return nothing else has happened: no log record, no
\* argument check, no numerics check, no workspace acquisition, no kernel
\* dispatch, no exception, no buffer touched.
C1_NullHandleReturnsFirst ==
    \A c \in Calls :
      (Active(c) /\ call[c].handle = NullHandle) =>
        /\ call[c].trace = <<>>
        /\ call[c].deref = {} /\ call[c].writes = {}
        /\ call[c].mem = nullptr
        /\ ~call[c].thrown
        /\ call[c].pc \in {"idle", "handle_check", "setup", "done"}
        /\ Done(c) => call[c].ret = "invalid_handle"

C1_Witness ==
    /\ IsGemmt(1) /\ call[1].type = "z" /\ call[1].handle = NullHandle
    /\ call[1].args.batch_count = 1 /\ call[1].args.nulls = {}
    /\ Done(1) /\ call[1].ret = "invalid_handle"

\* C2: with a non-null handle in device-memory-size query mode a call
\* returns success or the query sentinel right after the handle check,
\* whatever the arguments and the logging and numerics flags are: no log
\* record, no argument or numerics check, no kernel dispatch, no buffer
\* written.
C2_QueryShortCircuit ==
    \A c \in Calls :
      (Active(c) /\ Queried(c)) =>
        /\ call[c].trace = <<>>
        /\ call[c].deref = {} /\ call[c].writes = {}
        /\ ~call[c].thrown
        /\ call[c].pc \in {"idle", "handle_check", "query", "setup", "done"}
        /\ Done(c) => call[c].ret \in {"success", "size_unchanged"}

C2_Witness ==
    /\ IsGemmt(1) /\ Queried(1) /\ Done(1)
    /\ hstate[1].layer_mode = LogBits /\ hstate[1].check_numerics
    /\ call[1].args.nulls = GemmtPointers
    /\ call[1].ret = "size_unchanged"

\* the last collaborator the call invoked
LastEvent(c) ==
    IF call[c].trace = <<>> THEN "none"
    ELSE call[c].trace[Len(call[c].trace)]

\* C3: with numerics checking enabled, when the input numerics check of a
\* gemmt_batched call returns a failure status, the call returns that
\* status; the kernel template is not dispatched and the output check is
\* not run.
C3_InputNumericsFailureStopsCall ==
    \A c \in Calls :
      (/\ IsGemmt(c) /\ call[c].check_numerics
       /\ Has(c, "check_numerics_input")
       /\ ~Has(c, "check_numerics_output")
       /\ Failure(call[c].gemmt_check_numerics_status)) =>
        /\ Done(c)
        /\ call[c].ret = call[c].gemmt_check_numerics_status
        /\ ~Has(c, "template")
        /\ call[c].arg_status = "continue"

C3_Witness ==
    /\ IsGemmt(1) /\ Done(1) /\ call[1].check_numerics
    /\ LastEvent(1) = "check_numerics_input"
    /\ call[1].ret = "check_numerics_fail"
    /\ call[1].status = "none"

\* C4: when the kernel template of a gemmt_batched call returns a status
\* other than success, the call returns exactly that status and the output
\* numerics check is not invoked, with numerics checking on or off; the
\* two reductions return the status of their kernel template unchanged.
C4_KernelStatusPropagates ==
    \A c \in Calls :
      /\ (IsGemmt(c) /\ Failure(call[c].status)) =>
           /\ Done(c)
           /\ call[c].ret = call[c].status
           /\ ~Has(c, "check_numerics_output")
      /\ (call[c].routine \in Reductions /\ call[c].status # "none") =>
           /\ Done(c)
           /\ call[c].ret = call[c].status

C4_Witness ==
    /\ IsGemmt(1) /\ Done(1) /\ call[1].check_numerics
    /\ Has(1, "check_numerics_input")
    /\ call[1].status = "memory_error" /\ call[1].ret = "memory_error"

\* C5 as stated: a call whose kernel dispatch succeeded returns success.
C5_NoFailureAfterDispatch ==
    \A c \in Calls :
      (Done(c) /\ call[c].status = "success") => call[c].ret = "success"

\* C5, amended: a call that invoked the kernel template returns the
\* template's status, or internal-error when the template threw; the one
\* exception is gemmt_batched with numerics checking enabled, where after a
\* successful dispatch the output numerics check can still fail (its
\* status is returned) or throw (internal-error).  With numerics checking
\* off, a call whose dispatch succeeded returns success.
C5_FailureAfterDispatchOnlyFromOutputCheck ==
    \A c \in Calls :
      (Done(c) /\ Has(c, "template")) =>
        \/ call[c].status # "none" /\ call[c].ret = call[c].status
        \/ /\ call[c].status = "none"
           /\ call[c].thrown /\ call[c].ret = "internal_error"
        \/ /\ IsGemmt(c) /\ call[c].check_numerics
           /\ call[c].status = "success"
           /\ LastEvent(c) = "check_numerics_output"
           /\ \/ call[c].thrown /\ call[c].ret = "internal_error"
              \/ /\ Failure(call[c].gemmt_check_numerics_status)
                 /\ call[c].ret = call[c].gemmt_check_numerics_status

C5_Witness ==
    /\ IsGemmt(1) /\ Done(1) /\ call[1].status = "success"
    /\ "C" \in call[1].writes
    /\ call[1].ret = "check_numerics_fail"

\* position of the first occurrence of ev in the trace of c (0: none)
IndexOf(c, ev) ==
    IF Has(c, ev)
    THEN CHOOSE i \in DOMAIN call[c].trace :
           /\ call[c].trace[i] = ev
           /\ \A j \in 1..(i - 1) : call[c].trace[j] # ev
    ELSE 0

EnabledLogs(mode) ==
    {ev \in LogEvents :
       \/ ev = "log_trace" /\ Bit(mode, rocblas_layer_mode_log_trace)
       \/ ev = "log_bench" /\ Bit(mode, rocblas_layer_mode_log_bench)
       \/ ev = "log_profile" /\ Bit(mode, rocblas_layer_mode_log_profile)}

\* C6: in a gemmt_batched call, log records are emitted only past the
\* null-handle and query short-circuits, and once the argument check runs
\* every log record enabled on the handle has been emitted already; so a
\* call that fails the argument check has emitted all its enabled records.
C6_LogsBeforeArgCheck ==
    \A c \in Calls :
      IsGemmt(c) =>
        /\ Logged(c) => (call[c].handle # NullHandle /\ ~Queried(c))
        /\ (Has(c, "arg_check") /\ call[c].handle # NullHandle) =>
             /\ ~Queried(c)
             /\ \A ev \in EnabledLogs(hstate[call[c].handle].layer_mode) :
                  /\ Has(c, ev)
                  /\ IndexOf(c, ev) < IndexOf(c, "arg_check")
             /\ \A ev \in LogEvents :
                  Has(c, ev) =>
                    /\ ev \in EnabledLogs(hstate[call[c].handle].layer_mode)
                    /\ IndexOf(c, ev) < IndexOf(c, "arg_check")

C6_Witness ==
    /\ IsGemmt(1) /\ Done(1)
    /\ call[1].arg_status = "invalid_size" /\ call[1].ret = "invalid_size"
    /\ call[1].trace = <<"log_trace", "log_bench", "log_profile", "arg_check">>

NotLog(ev) == ev \notin LogEvents
\* what a call did besides logging, and what it returned
Outcome(c) ==
    [steps |-> SelectSeq(call[c].trace, NotLog),
     ret |-> call[c].ret, escaped |-> call[c].escaped]

NoLogThrew == \A k \in LogEvents : oracle[k] # Throw

Max(a, b) == IF a > b THEN a ELSE b

\* a call with batch_count == 0 on a usable handle, its other sizes valid
BatchZeroCase(c) ==
    /\ Active(c)
    /\ call[c].handle # NullHandle /\ ~Queried(c)
    /\ call[c].args.batch_count = 0
    /\ IsGemmt(c) =>
         LET a == call[c].args
         IN /\ a.uplo \in {"upper", "lower"}
            /\ a.n >= 0 /\ a.k >= 0
            /\ a.ldc >= a.n
            /\ a.lda >= Max(a.n, a.k) /\ a.ldb >= Max(a.n, a.k)
    /\ call[c].routine \in Reductions => call[c].args.n >= 0

\* C8 as stated: a batch_count == 0 call returns success without reading
\* through any caller pointer (alpha, A, B, beta, C; x, result), whatever
\* the logging and numerics flags, and dispatches no kernel.
C8_BatchZeroDereferencesNothing ==
    \A c \in Calls :
      BatchZeroCase(c) =>
        /\ call[c].deref = {}
        /\ ~Has(c, "template")
        /\ Done(c) => call[c].ret = "success"

\* C8, amended: a batch_count == 0 call dispatches no kernel, runs no
\* numerics check, writes nothing and never reads through A, B, C, x or
\* result, whatever the logging and numerics flags.  It returns success,
\* or internal-error when a log emitter, the argument check or the setup
\* threw.  Only the scalars alpha and beta of gemmt_batched can be read,
\* and only by its trace and bench records, which are written before the
\* argument check.
C8_BatchZeroReadsOnlyLoggedScalars ==
    \A c \in Calls :
      BatchZeroCase(c) =>
        /\ call[c].deref \subseteq LogScalars
        /\ call[c].deref # {} =>
             (IsGemmt(c) /\ (Has(c, "log_trace") \/ Has(c, "log_bench")))
        /\ call[c].writes = {}
        /\ ~Has(c, "template")
        /\ ~Has(c, "check_numerics_input")
        /\ ~Has(c, "check_numerics_output")
        /\ call[c].mem = nullptr
        /\ Done(c) =>
             \/ ~call[c].thrown /\ call[c].ret = "success"
             \/ call[c].thrown /\ call[c].ret = "internal_error"

C8_Witness ==
    /\ IsGemmt(1) /\ BatchZeroCase(1) /\ Done(1)
    /\ call[1].layer_mode = LogBits /\ call[1].check_numerics
    /\ call[1].args.nulls = {"C"} /\ call[1].args.n = MaxN
    /\ call[1].deref = LogScalars
    /\ call[1].arg_status = "success" /\ call[1].ret = "success"

\* C9: every exported entry point returns a status for every call: an
\* exception thrown by any step of the call chain is caught at the entry
\* point, which returns internal-error; no exception reaches the caller.
C9_ExceptionsBecomeInternalError ==
    \A c \in Calls :
      Active(c) =>
        /\ ~call[c].escaped
        /\ call[c].thrown => call[c].pc \in {"catch", "done"}
        /\ Done(c) => call[c].ret \in Statuses
        /\ (Done(c) /\ call[c].thrown) => call[c].ret = "internal_error"

C9_Witness ==
    /\ call[1].routine = "iamin_strided_batched" /\ call[1].type = "c"
    /\ Done(1) /\ call[1].thrown /\ ~call[1].escaped
    /\ LastEvent(1) = "workspace"
    /\ call[1].ret = "internal_error"

\* C10: the continue sentinel never reaches the caller: whenever a call of
\* any routine has returned, its status is not rocblas_status_continue
\* (the numerics validator and the kernel templates never answer continue).
C10_ContinueNeverReturned ==
    \A c \in Calls :
      (Active(c) /\ Done(c)) => call[c].ret # "continue"

C10_Witness ==
    /\ IsGemmt(1) /\ Done(1)
    /\ call[1].arg_status = "continue"
    /\ ~call[1].check_numerics
    /\ call[1].ret = "success"

\* C11: in the two reductions, when the setup returns a status other than
\* continue (trivial success, a validation failure, memory-error from the
\* arena) the call returns exactly that status and the kernel template is
\* not invoked; the template is invoked only after the setup returned
\* continue, and with the workspace pointer this call's setup populated.
C11_SetupStatusDecides ==
    \A c \in Calls :
      call[c].routine \in Reductions =>
        /\ call[c].checks_status \notin {"none", "continue"} =>
             /\ Done(c)
             /\ call[c].ret = call[c].checks_status
             /\ ~Has(c, "template")
        /\ Has(c, "template") =>
             /\ call[c].checks_status = "continue"
             /\ IndexOf(c, "workspace") > 0
             /\ IndexOf(c, "workspace") < IndexOf(c, "template")
             /\ call[c].kernel_mem # nullptr
             /\ call[c].kernel_mem = call[c].mem
             /\ call[c].kernel_mem.owner = c
             /\ call[c].kernel_mem.h = call[c].handle

C11_Witness ==
    /\ call[1].routine = "iamax_batched" /\ Done(1)
    /\ call[1].checks_status = "memory_error"
    /\ call[1].ret = "memory_error"
    /\ LastEvent(1) = "workspace"

SameInstance(m1, m2) == m1.h = m2.h /\ m1.id = m2.id

RecordsOf(c, kind) ==
    {i \in DOMAIN call[c].records : call[c].records[i].kind = kind}

\* C13: the bench record of a gemmt_batched call is the tool invocation,
\* the precision string, then --uplo, --transposeA, --transposeB with the
\* letters of the call's uplo, transA, transB, -n and -k with n and k, the
\* alpha scalar, --lda and --ldb with lda and ldb, the beta scalar, --ldc
\* with ldc and --batch_count with batch_count, in this order, for every
\* argument combination.
C13_BenchRecordTokens ==
    \A c \in Calls :
      \A i \in RecordsOf(c, "log_bench") :
        LET t == call[c].records[i].tokens
            a == call[c].args
        IN /\ Len(t) = 22
           /\ t[1] = "./rocblas-bench -f gemmt_batched -r"
           /\ t[2] = rocblas_precision_string(call[c].type)
           /\ <<t[3], t[4]>> = <<"--uplo", rocblas_fill_letter(a.uplo)>>
           /\ <<t[5], t[6]>> =
                <<"--transposeA", rocblas_transpose_letter(a.transA)>>
           /\ <<t[7], t[8]>> =
                <<"--transposeB", rocblas_transpose_letter(a.transB)>>
           /\ <<t[9], t[10]>> = <<"-n", ToString(a.n)>>
           /\ <<t[11], t[12]>> = <<"-k", ToString(a.k)>>
           /\ t[13] = ScalarValue("alpha")
           /\ <<t[14], t[15]>> = <<"--lda", ToString(a.lda)>>
           /\ <<t[16], t[17]>> = <<"--ldb", ToString(a.ldb)>>
           /\ t[18] = ScalarValue("beta")
           /\ <<t[19], t[20]>> = <<"--ldc", ToString(a.ldc)>>
           /\ <<t[21], t[22]>> = <<"--batch_count", ToString(a.batch_count)>>

\* the call of the documented example has written its bench record
C13_Witness ==
    /\ IsGemmt(1) /\ call[1].type = "s"
    /\ call[1].args.uplo = "upper" /\ call[1].args.transA = "none"
    /\ call[1].args.transB = "transpose"
    /\ \E i \in RecordsOf(1, "log_bench") :
         call[1].records[i].tokens =
           <<"./rocblas-bench -f gemmt_batched -r", "f32_r", "--uplo", "U",
             "--transposeA", "N", "--transposeB", "T", "-n", "4", "-k", "3",
             "<alpha>", "--lda", "4", "--ldb", "3", "<beta>", "--ldc", "4",
             "--batch_count", "2">>

\* the position of a step in the order of the impl's statements
StepOrder ==
    <<"idle", "handle_check", "query", "snapshot", "log_trace", "log_bench",
      "log_profile", "arg_check", "numerics_input", "template",
      "numerics_output", "catch", "done">>
Rank(pc) == CHOOSE i \in DOMAIN StepOrder : StepOrder[i] = pc
EventOrder ==
    <<"log_trace", "log_bench", "log_profile", "arg_check",
      "check_numerics_input", "template", "check_numerics_output">>
EventRank(ev) == CHOOSE i \in DOMAIN EventOrder : EventOrder[i] = ev
\* a step of the call has reported something other than "go on"
Reported(r) ==
    \/ r.thrown
    \/ r.arg_status \notin {"none", "continue"}
    \/ r.gemmt_check_numerics_status \notin {"none", "success"}
    \/ r.status \notin {"none", "success"}

\* C14: a gemmt_batched call moves through handle check, query
\* short-circuit, logging, argument check, input numerics check, kernel
\* dispatch, output numerics check and return in this order only: every
\* step of the call moves it strictly forward, every collaborator is
\* invoked after all those invoked before it in this order and at most
\* once, and once a step has reported a failure the call only returns.
C14_StepsInOrderNoRetry ==
    [][\A c \in Calls :
         (IsGemmt(c) /\ call'[c] # call[c]) =>
           /\ Rank(call'[c].pc) > Rank(call[c].pc)
           /\ \/ call'[c].trace = call[c].trace
              \/ \E ev \in {EventOrder[i] : i \in DOMAIN EventOrder} :
                   /\ call'[c].trace = Append(call[c].trace, ev)
                   /\ \A i \in DOMAIN call[c].trace :
                        EventRank(call[c].trace[i]) < EventRank(ev)
           /\ Reported(call[c]) => call'[c].trace = call[c].trace
           /\ Reported(call'[c]) => call'[c].pc \in {"catch", "done"}]_vars

\* a call that has run every step: three records, the argument check,
\* both numerics checks around the dispatch, and the return
C14_Witness ==
    /\ IsGemmt(1) /\ Done(1) /\ call[1].ret = "success"
    /\ call[1].trace = EventOrder

\* the invocations of the numerics validator a call has made, in order
NumericsCalls(c) ==
    SelectSeq(call[c].trace,
              LAMBDA ev : ev \in {"check_numerics_input",
                                  "check_numerics_output"})
\* the validator invocations and the kernel dispatch, in order
NumericsAndDispatch(c) ==
    SelectSeq(call[c].trace,
              LAMBDA ev : ev \in {"check_numerics_input", "template",
                                  "check_numerics_output"})

\* C15: when a gemmt_batched call has passed the argument check with
\* continue and its kernel dispatch has returned success, then by the time
\* the call has returned the numerics validator has been invoked exactly
\* twice if numerics checking is enabled (on the inputs before the
\* dispatch, on the outputs after it) and never if it is disabled; the
\* call returns the output check's status if that is a failure and success
\* otherwise.
C15_NumericsTwiceOrNever ==
    \A c \in Calls :
      (/\ IsGemmt(c) /\ Done(c)
       /\ call[c].arg_status = "continue" /\ call[c].status = "success") =>
        /\ call[c].check_numerics =>
             /\ NumericsCalls(c) =
                  <<"check_numerics_input", "check_numerics_output">>
             /\ NumericsAndDispatch(c) =
                  <<"check_numerics_input", "template",
                    "check_numerics_output">>
        /\ ~call[c].check_numerics =>
             /\ NumericsCalls(c) = <<>>
             /\ call[c].gemmt_check_numerics_status = "none"
        /\ ~call[c].thrown =>
             call[c].ret = IF Failure(call[c].gemmt_check_numerics_status)
                           THEN call[c].gemmt_check_numerics_status
                           ELSE "success"

\* a call with numerics checking enabled whose output check failed
C15_Witness ==
    /\ IsGemmt(1) /\ Done(1) /\ call[1].check_numerics
    /\ call[1].arg_status = "continue" /\ call[1].status = "success"
    /\ LastEvent(1) = "check_numerics_output"
    /\ Failure(call[1].ret) /\ ~call[1].thrown

\* C16: when the argument check of a gemmt_batched call returns a status
\* other than continue (a trivial success or a failure), the call returns
\* exactly that status and neither numerics check nor the kernel dispatch
\* runs, also when numerics checking is enabled.
C16_ArgStatusReturned ==
    \A c \in Calls :
      (IsGemmt(c) /\ call[c].arg_status \notin {"none", "continue"}) =>
        /\ Done(c) /\ call[c].ret = call[c].arg_status
        /\ call[c].arg_status = rocblas_gemmt_arg_check(call[c].args)
        /\ LastEvent(c) = "arg_check"
        /\ NumericsAndDispatch(c) = <<>>
        /\ call[c].writes = {}

\* a trivial success (batch_count = 0) with numerics checking enabled
C16_Witness ==
    /\ IsGemmt(1) /\ Done(1) /\ call[1].check_numerics
    /\ call[1].args.batch_count = 0
    /\ call[1].arg_status = "success" /\ call[1].ret = "success"

\* the logging block of a call is behind it
PastLogging(c) ==
    Rank(call[c].pc) > Rank("log_profile") /\ Has(c, "arg_check")

\* C17: the three log records of a gemmt_batched call are independent:
\* for each of the eight combinations of the trace, bench and profile bits
\* of the handle's logging mode, once the logging block has run the trace
\* record has been written exactly once if the trace bit is set and never
\* otherwise, and likewise the bench record for the bench bit and the
\* profile record for the profile bit; a record is never written twice or
\* without its bit.
C17_LogRecordsIndependent ==
    \A c \in Calls :
      IsGemmt(c) =>
        \A m \in 0..LogBits :
          call[c].layer_mode = m =>
            /\ Cardinality(RecordsOf(c, "log_trace")) <=
                 (IF Bit(m, rocblas_layer_mode_log_trace) THEN 1 ELSE 0)
            /\ Cardinality(RecordsOf(c, "log_bench")) <=
                 (IF Bit(m, rocblas_layer_mode_log_bench) THEN 1 ELSE 0)
            /\ Cardinality(RecordsOf(c, "log_profile")) <=
                 (IF Bit(m, rocblas_layer_mode_log_profile) THEN 1 ELSE 0)
            /\ PastLogging(c) =>
                 /\ Cardinality(RecordsOf(c, "log_trace")) =
                      (IF Bit(m, rocblas_layer_mode_log_trace) THEN 1 ELSE 0)
                 /\ Cardinality(RecordsOf(c, "log_bench")) =
                      (IF Bit(m, rocblas_layer_mode_log_bench) THEN 1 ELSE 0)
                 /\ Cardinality(RecordsOf(c, "log_profile")) =
                      (IF Bit(m, rocblas_layer_mode_log_profile) THEN 1 ELSE 0)
                 /\ call[c].layer_mode = hstate[call[c].handle].layer_mode

\* a call with the trace and profile bits set and the bench bit clear has
\* written exactly the trace and the profile record
C17_Witness ==
    /\ IsGemmt(1) /\ Done(1) /\ PastLogging(1)
    /\ call[1].layer_mode =
         rocblas_layer_mode_log_trace + rocblas_layer_mode_log_profile
    /\ Len(call[1].records) = 2
    /\ call[1].records[1].kind = "log_trace"
    /\ call[1].records[2].kind = "log_profile"

\* C18: the profile record of a gemmt_batched call is the routine name
\* followed by nine key/value pairs in the order uplo, transA, transB, N,
\* K, lda, ldb, ldc, batch_count; every key is the plain name of the
\* parameter, without a command-line flag prefix, and every value is the
\* call's argument (the letter for uplo, transA and transB).
C18_ProfileRecordPlainKeys ==
    \A c \in Calls :
      \A i \in RecordsOf(c, "log_profile") :
        LET t == call[c].records[i].tokens
            a == call[c].args
        IN /\ Len(t) = 19
           /\ t[1] = rocblas_gemmt_name(call[c].type)
           /\ <<t[2], t[3]>> = <<"uplo", rocblas_fill_letter(a.uplo)>>
           /\ <<t[4], t[5]>> = <<"transA", rocblas_transpose_letter(a.transA)>>
           /\ <<t[6], t[7]>> = <<"transB", rocblas_transpose_letter(a.transB)>>
           /\ <<t[8], t[9]>> = <<"N", ToString(a.n)>>
           /\ <<t[10], t[11]>> = <<"K", ToString(a.k)>>
           /\ <<t[12], t[13]>> = <<"lda", ToString(a.lda)>>
           /\ <<t[14], t[15]>> = <<"ldb", ToString(a.ldb)>>
           /\ <<t[16], t[17]>> = <<"ldc", ToString(a.ldc)>>
           /\ <<t[18], t[19]>> = <<"batch_count", ToString(a.batch_count)>>

\* what a call's steps read and write besides the call's own record: the
\* fields of its handle and the handle's arena
HandleView(c) == <<hstate[call[c].handle], arena[call[c].handle]>>

\* C19: two calls running concurrently on different handles do not
\* interfere: in every interleaving, a step of one call changes nothing of
\* the other call, of the other call's handle or of that handle's arena,
\* so each call meets at every step the state it would meet running alone
\* (its workspace is the instance it would get alone) and takes the steps
\* and returns the status it would take and return alone.
C19_DifferentHandlesDoNotInterfere ==
    [][\A c \in Calls, d \in Calls :
         (/\ c # d /\ Active(c) /\ Active(d)
          /\ call[c].handle # call[d].handle
          /\ call'[c] # call[c]) =>
           /\ call'[d] = call[d]
           /\ HandleView(d)' = HandleView(d)
           /\ hstate' = hstate
           /\ \A e \in arena'[call[c].handle] : e.owner = c /\ e.id = 1
           /\ call'[c].mem # nullptr =>
                (call'[c].mem.h = call[c].handle /\ call'[c].mem.id = 1)]_vars

\* two reduction calls in flight at once on different handles, each
\* holding the workspace it would hold alone
C19_Witness ==
    /\ call[1].routine = "iamax_batched" /\ call[1].pc = "template"
    /\ call[2].routine = "iamin_strided_batched" /\ call[2].pc = "template"
    /\ call[1].handle # call[2].handle
    /\ call[1].mem.id = 1 /\ call[2].mem.id = 1
    /\ call[1].mem.h = 1 /\ call[2].mem.h = 2

\* C20: every call of every exported routine eventually returns a status
\* to its caller, whether its collaborators return or throw, and it does
\* so whether or not the device ever finishes the work the call enqueued:
\* no step of a call waits for the device.
C20_EveryCallReturns ==
    \A c \in Calls :
      (Active(c) /\ call[c].pc = "idle")
        ~> (Done(c) /\ call[c].ret \in Statuses \ {"continue"})

\* a call has returned success while the kernels it enqueued still run
C20_Witness ==
    /\ Done(1) /\ call[1].ret = "success"
    /\ Has(1, "template") /\ device[1] = "running"

\* C21: a gemmt_batched call reads the handle's numerics-check flag and
\* logging mode once, before logging, and both numerics checks are guarded
\* by that one value: whatever another thread stores into the handle while
\* the call runs, the output check runs only in a call whose input check
\* ran, the input check of a call whose kernel succeeded is followed by
\* the output check, and a record or check appears only if the value read
\* enables it.
C21_NumericsFlagSnapshot ==
    \A c \in Calls :
      IsGemmt(c) =>
        /\ Has(c, "check_numerics_output") =>
             (Has(c, "check_numerics_input") /\ call[c].check_numerics)
        /\ Has(c, "check_numerics_input") => call[c].check_numerics
        /\ (Done(c) /\ call[c].status = "success") =>
             (Has(c, "check_numerics_input") <=>
                Has(c, "check_numerics_output"))
        /\ (Done(c) /\ call[c].status = "success") =>
             (call[c].check_numerics <=> Has(c, "check_numerics_output"))
        /\ \A ev \in LogEvents :
             Has(c, ev) => ev \in EnabledLogs(call[c].layer_mode)

\* a call ran both checks although the handle's flag was cleared while
\* the call was running
C21_Witness ==
    /\ IsGemmt(1) /\ Done(1) /\ call[1].status = "success"
    /\ Has(1, "check_numerics_input") /\ Has(1, "check_numerics_output")
    /\ ~hstate[1].check_numerics

\* the fields S of an argument list
Only(p, S) == [f \in S |-> p[f]]
\* the argument lists a call has handed to the collaborator behind ev
PassedTo(c, ev) ==
    {call[c].passed[i].args :
       i \in {j \in DOMAIN call[c].passed : call[c].passed[j].to = ev}}
GemmtShared ==
    {"uplo", "transA", "transB", "n", "k", "A", "lda", "B", "ldb", "C",
     "ldc", "batch_count"}
\* the caller's arguments of a gemmt_batched call
GemmtCaller(a) ==
    [uplo |-> a.uplo, transA |-> a.transA, transB |-> a.transB, n |-> a.n,
     k |-> a.k, A |-> "A", lda |-> a.lda, B |-> "B", ldb |-> a.ldb,
     C |-> "C", ldc |-> a.ldc, batch_count |-> a.batch_count]
ReductionShared == {"n", "x", "incx", "batch_count", "result"}
\* the caller's arguments of a reduction call
ReductionCaller(a) ==
    [n |-> a.n, x |-> "x", incx |-> a.incx, batch_count |-> a.batch_count,
     result |-> "result"]

\* C22: what is executed is what was validated.  In gemmt_batched the
\* argument check, both numerics checks and the kernel template are handed
\* the caller's uplo, transA, transB, n, k, A, lda, B, ldb, C, ldc and
\* batch_count, the numerics checks and the kernel with strides 0 for A, B
\* and C; in batched iamax the setup and the kernel are handed the caller's
\* n, x, incx, batch_count and result with stride 0, the kernel with shift
\* 0; in strided-batched iamin both are handed the caller's stridex, the
\* kernel with shift 0.  The kernel's arguments are those validated.
C22_ExecutedIsValidated ==
    \A c \in Calls :
      /\ IsGemmt(c) =>
           /\ \A ev \in {"arg_check", "check_numerics_input", "template",
                         "check_numerics_output"} :
                \A p \in PassedTo(c, ev) :
                  /\ Only(p, GemmtShared) = GemmtCaller(call[c].args)
                  /\ ev # "arg_check" =>
                       <<p.stride_A, p.stride_B, p.stride_C>> = <<0, 0, 0>>
           /\ \A p \in PassedTo(c, "template") :
                /\ PassedTo(c, "arg_check") # {}
                /\ \A q \in PassedTo(c, "arg_check") :
                     /\ Only(p, GemmtShared) = Only(q, GemmtShared)
                     /\ <<p.alpha, p.beta>> = <<q.alpha, q.beta>>
      /\ call[c].routine \in Reductions =>
           /\ \A ev \in {"setup", "template"} :
                \A p \in PassedTo(c, ev) :
                  /\ Only(p, ReductionShared) = ReductionCaller(call[c].args)
                  /\ p.stridex = IF call[c].routine = "iamax_batched" THEN 0
                                 ELSE call[c].args.stridex
                  /\ ev = "template" => p.shiftx = 0
           /\ \A p \in PassedTo(c, "template") :
                /\ PassedTo(c, "setup") # {}
                /\ \A q \in PassedTo(c, "setup") :
                     Only(p, ReductionShared \cup {"stridex"}) =
                       Only(q, ReductionShared \cup {"stridex"})

\* a strided-batched iamin call has handed its kernel the caller's
\* non-zero stride after the setup validated it
C22_Witness ==
    /\ call[1].routine = "iamin_strided_batched" /\ Done(1)
    /\ call[1].ret = "success"
    /\ call[1].args.stridex = 5 /\ call[1].args.incx = 2
    /\ \E p \in PassedTo(1, "template") : p.stridex = 5 /\ p.incx = 2
    /\ PassedTo(1, "setup") # {}

====
